---- MODULE Spec2Model ----
(***************************************************************************)
(* A model of misc/export_to_kml.py: esri_to_gdf (the loader's dispatch on *)
(* the path), export_kml (the per-record transcoder) and _style_polygon.   *)
(*                                                                         *)
(* A geometry is a record with the fields the code reads (geom_type,       *)
(* coords, exterior, interiors, geoms); a KML document is the sequence of  *)
(* the features created on it, in creation order; a style is a record that *)
(* holds exactly the attributes the code assigned.  Strings built with an  *)
(* f-string are the tuple of their pieces.                                 *)
(***************************************************************************)
EXTENDS Integers, Sequences, FiniteSets, TLC

VARIABLES
    gdf,            \* the GeoDataFrame export_kml iterates: [crs, columns, rows]
    crs_in,         \* the CRS of the GeoDataFrame as it was passed in
    label_col,      \* parameters of export_kml that vary between runs
    show_labels,
    label_scale,
    poly_fill,
    poly_color,
    pc,             \* position in export_kml / esri_to_gdf
    i,              \* index of the next row of gdf.iterrows()
    kml,            \* the simplekml document: its features in creation order
    to_crs_calls,   \* number of calls of gdf.to_crs
    console,        \* the lines printed so far
    files,          \* the writes made by kml.save: <<[path, doc], ...>>
    aoi,            \* the argument of esri_to_gdf: a path as a sequence of pieces
    read            \* what esri_to_gdf did: the read_file call it made, or the raise

vars == <<gdf, crs_in, label_col, show_labels, label_scale, poly_fill, poly_color,
          pc, i, kml, to_crs_calls, console, files, aoi, read>>

(***************************************************************************)
(* Bounds of the model.                                                    *)
(***************************************************************************)
MaxRecords == 2     \* rows of a GeoDataFrame of simple records
MaxRings == 3       \* rings (outer and inner together) of a polygonal geometry
MaxParts == 2       \* parts of a MultiPoint or MultiLineString
MaxPathLen == 4     \* pieces of a path handed to esri_to_gdf

(***************************************************************************)
(* Python values.                                                          *)
(***************************************************************************)
None == "<None>"
Truthy(s) == s # None /\ s # ""

WGS84 == 4326

\* Defaults of export_kml's parameters that the model keeps fixed.
output_path == "out.kml"
line_color == "ff0000ff"
line_width == "1.5"
label_color == "ffffffff"
point_icon_scale == 1
point_icon_color == "ff0000ff"

(***************************************************************************)
(* Geometries (shapely).                                                   *)
(***************************************************************************)
Geom(t, c, e, h, g) ==
    [geom_type |-> t, coords |-> c, exterior |-> e, interiors |-> h, geoms |-> g]

NoneGeom == Geom("NoneType", <<>>, <<>>, <<>>, <<>>)
Point(v) == Geom("Point", <<v>>, <<>>, <<>>, <<>>)
LineString(c) == Geom("LineString", c, <<>>, <<>>, <<>>)
Polygon(e, h) == Geom("Polygon", <<>>, e, h, <<>>)
Multi(t, g) == Geom(t, <<>>, <<>>, <<>>, g)

Vertices == {<<0, 1>>, <<2, 3>>}
LineCoords == {<<<<0, 1>>, <<2, 3>>>>, <<<<2, 3>>, <<0, 1>>, <<4, 1>>>>}
RingAt(k) == <<<<k, 0>>, <<k + 4, 0>>, <<k, 4>>, <<k, 0>>>>
Rings == {RingAt(0), RingAt(5)}

SeqsUpTo(S, lo, hi) == UNION {[1..m -> S] : m \in lo..hi}

Points == {Point(v) : v \in Vertices}
LineStrings == {LineString(c) : c \in LineCoords}
MultiPoints == {Multi("MultiPoint", g) : g \in SeqsUpTo(Points, 1, MaxParts)}
MultiLineStrings ==
    {Multi("MultiLineString", g) : g \in SeqsUpTo(LineStrings, 1, MaxParts)}

\* Polygons of exactly k rings, and the sequences of polygons of at most n rings.
PolygonsOfSize(k) == {Polygon(e, h) : e \in Rings, h \in [1..(k - 1) -> Rings]}
Polygons == UNION {PolygonsOfSize(k) : k \in 1..MaxRings}

RECURSIVE PolygonSeqs(_)
PolygonSeqs(n) ==
    {<<>>} \cup
    UNION {{<<p>> \o rest : p \in PolygonsOfSize(k), rest \in PolygonSeqs(n - k)} :
           k \in 1..n}
MultiPolygons == {Multi("MultiPolygon", g) : g \in PolygonSeqs(MaxRings) \ {<<>>}}

GeometryCollections == {Multi("GeometryCollection", <<p>>) : p \in Points}

SupportedTypes ==
    {"Point", "MultiPoint", "LineString", "MultiLineString", "Polygon", "MultiPolygon"}
PolygonTypes == {"Polygon", "MultiPolygon"}

\* Attribute values of the column "name"; a row is its geometry and attributes.
Names == {"A", ""}
Row(g, n) == [geometry |-> g, attrs |-> [name |-> n]]

AllGeoms ==
    Points \cup LineStrings \cup MultiPoints \cup MultiLineStrings \cup Polygons
    \cup MultiPolygons \cup GeometryCollections
SimpleRows ==
    {Row(NoneGeom, "A"), Row(Multi("GeometryCollection", <<Point(<<2, 3>>)>>), "A")}
    \cup {Row(g, n) : g \in {Point(<<0, 1>>), Polygon(RingAt(0), <<RingAt(5)>>)},
                     n \in Names}

\* The row sequences export_kml is run on: one row of any geometry, or up to
\* MaxRecords rows of simple ones (null, unsupported, a point, a polygon).
RowSeqs ==
    {<<Row(g, "A")>> : g \in AllGeoms} \cup SeqsUpTo(SimpleRows, 0, MaxRecords)

\* CRS of the input: unset, EPSG:4326, another EPSG code, or a CRS without one.
CrsStates == {"unset", "EPSG:4326", "EPSG:3005", "custom"}

\* crs.to_epsg(): the EPSG code, or none.
to_epsg(crs) ==
    CASE crs = "EPSG:4326" -> [has |-> TRUE, code |-> 4326]
      [] crs = "EPSG:3005" -> [has |-> TRUE, code |-> 3005]
      [] OTHER -> [has |-> FALSE, code |-> 0]

\* The reprojection collaborator (geopandas/pyproj): it moves every vertex and
\* sets the CRS.  The map stands for the projection: injective, not the identity.
Transform(v) == <<v[1] + 100, v[2] + 200>>
TransformSeq(c) == [j \in 1..Len(c) |-> Transform(c[j])]
TransformPart(g) ==
    Geom(g.geom_type, TransformSeq(g.coords), TransformSeq(g.exterior),
         [j \in 1..Len(g.interiors) |-> TransformSeq(g.interiors[j])], <<>>)
TransformGeom(g) ==
    Geom(g.geom_type, TransformSeq(g.coords), TransformSeq(g.exterior),
         [j \in 1..Len(g.interiors) |-> TransformSeq(g.interiors[j])],
         [j \in 1..Len(g.geoms) |-> TransformPart(g.geoms[j])])
to_crs(g) ==
    [crs |-> "EPSG:4326", columns |-> g.columns,
     rows |-> [j \in 1..Len(g.rows) |->
                 [geometry |-> TransformGeom(g.rows[j].geometry),
                  attrs |-> g.rows[j].attrs]]]

\* geom.centroid (shapely): a point determined by the geometry it is taken of.
centroid(geom) == [x |-> <<"centroid.x", geom>>, y |-> <<"centroid.y", geom>>]

(***************************************************************************)
(* export_kml.                                                             *)
(***************************************************************************)
\* The condition without its "gdf.crs and" guard.
NeedsReprojection_unguarded(g) ==
    ~(to_epsg(g.crs).has /\ to_epsg(g.crs).code = WGS84)

\* line 68: the condition of the reprojection.
NeedsReprojection(g) ==
    g.crs # "unset" /\ ~(to_epsg(g.crs).has /\ to_epsg(g.crs).code = WGS84)

\* line 78: the label of a row.
label_of(row) ==
    IF Truthy(label_col) /\ label_col \in gdf.columns
    THEN row.attrs[label_col]
    ELSE ""

\* "name=label if show_labels else ''".
name_of(label) == IF show_labels THEN label ELSE ""

\* The label scale without the test of the label.
labelstyle_scale_any_label(label) == IF show_labels THEN label_scale ELSE 0

\* "label_scale if show_labels and label else 0".
labelstyle_scale(label) == IF show_labels /\ label # "" THEN label_scale ELSE 0

\* [(x, y) for x, y in coords]
xy(coords) == [j \in 1..Len(coords) |-> <<coords[j][1], coords[j][2]>>]

point_style(label) ==
    [iconscale |-> point_icon_scale, iconcolor |-> point_icon_color,
     labelscale |-> labelstyle_scale(label), labelcolor |-> label_color]

line_style(label) ==
    [linecolor |-> line_color, linewidth |-> line_width,
     labelscale |-> labelstyle_scale(label), labelcolor |-> label_color]

\* _style_polygon with the colour applied whenever one is given.
_style_polygon_color_only(lc, lw, fill, color) ==
    IF Truthy(color)
    THEN [linecolor |-> lc, linewidth |-> lw, fill |-> fill, polycolor |-> color,
          labelscale |-> 0]
    ELSE [linecolor |-> lc, linewidth |-> lw, fill |-> fill, labelscale |-> 0]

\* _style_polygon: the attributes it assigns.
_style_polygon(lc, lw, fill, color) ==
    IF fill # 0 /\ Truthy(color)
    THEN [linecolor |-> lc, linewidth |-> lw, fill |-> fill, polycolor |-> color,
          labelscale |-> 0]
    ELSE [linecolor |-> lc, linewidth |-> lw, fill |-> fill, labelscale |-> 0]

\* "pol.innerboundaryis = ..." is an assignment: it replaces the value.
set_innerboundaryis(pol, ring) == [pol EXCEPT !.innerboundaryis = <<ring>>]

\* lines 121-122 and 130-131: the loop over the interiors.
RECURSIVE assign_interiors(_, _)
assign_interiors(pol, interiors) ==
    IF interiors = <<>>
    THEN pol
    ELSE assign_interiors(set_innerboundaryis(pol, xy(Head(interiors))),
                          Tail(interiors))

\* newpolygon(), outerboundaryis and the loop over the interiors.
new_polygon(polygon) ==
    assign_interiors(
        [tag |-> "Polygon", outerboundaryis |-> xy(polygon.exterior),
         innerboundaryis |-> <<>>],
        polygon.interiors)

\* lines 82-132: the feature built for a geometry of a supported kind.
build(geom, label) ==
    CASE geom.geom_type = "Point" ->
           [tag |-> "Point", name |-> name_of(label),
            coords |-> <<<<geom.coords[1][1], geom.coords[1][2]>>>>,
            style |-> point_style(label)]
      [] geom.geom_type = "MultiPoint" ->
           [tag |-> "MultiGeometry", name |-> name_of(label),
            geoms |-> [j \in 1..Len(geom.geoms) |->
                        [tag |-> "Point",
                         coords |-> <<<<geom.geoms[j].coords[1][1],
                                        geom.geoms[j].coords[1][2]>>>>]],
            style |-> point_style(label)]
      [] geom.geom_type = "LineString" ->
           [tag |-> "LineString", name |-> name_of(label),
            coords |-> xy(geom.coords), style |-> line_style(label)]
      [] geom.geom_type = "MultiLineString" ->
           [tag |-> "MultiGeometry", name |-> name_of(label),
            geoms |-> [j \in 1..Len(geom.geoms) |->
                        [tag |-> "LineString", coords |-> xy(geom.geoms[j].coords)]],
            style |-> line_style(label)]
      [] geom.geom_type = "Polygon" ->
           [tag |-> "Polygon", geoms |-> <<new_polygon(geom)>>,
            style |-> _style_polygon(line_color, line_width, poly_fill, poly_color)]
      [] geom.geom_type = "MultiPolygon" ->
           [tag |-> "MultiGeometry",
            geoms |-> [j \in 1..Len(geom.geoms) |-> new_polygon(geom.geoms[j])],
            style |-> _style_polygon(line_color, line_width, poly_fill, poly_color)]

\* The centroid label, and the same emitted whatever show_labels is.
centroid_point(geom, label) ==
    [tag |-> "Point", name |-> label,
     coords |-> <<<<centroid(geom).x, centroid(geom).y>>>>,
     style |-> [iconscale |-> 0, labelscale |-> label_scale,
                labelcolor |-> label_color]]
centroid_label_any_show(geom, label) ==
    IF geom.geom_type \in PolygonTypes /\ label # ""
    THEN <<centroid_point(geom, label)>>
    ELSE <<>>

\* lines 138-144: the centroid label of a polygon, or nothing.
centroid_label(geom, label) ==
    IF geom.geom_type \in PolygonTypes /\ show_labels /\ label # ""
    THEN <<centroid_point(geom, label)>>
    ELSE <<>>

\* The features of a record with the centroid label created first.
emit_centroid_first(doc, geom, label) ==
    (doc \o centroid_label(geom, label)) \o <<build(geom, label)>>

\* lines 82-144 for a supported kind: the feature is created on the document,
\* then the centroid label.
emit(doc, geom, label) ==
    Append(doc, build(geom, label)) \o centroid_label(geom, label)

\* The warning without the kind.
Warning_no_kind(geom_type) == <<"Warning: Unsupported geometry type '", "' skipped.">>

\* line 135
Warning(geom_type) == <<"Warning: Unsupported geometry type '", geom_type, "' skipped.">>
\* line 147
Saved(path) == <<"KML saved to: ", path>>

Idle == aoi = <<>> /\ read = [call |-> "none", filename |-> <<>>, layer |-> <<>>, error |-> <<>>]

Init ==
    /\ \E rows \in RowSeqs, crs \in CrsStates :
         /\ gdf = [crs |-> crs, columns |-> {"name", "geometry"}, rows |-> rows]
         /\ crs_in = crs
    /\ label_col \in {None, "name", "missing"}
    /\ show_labels \in BOOLEAN
    /\ label_scale \in {1, 2}
    /\ poly_fill \in {0, 1}
    /\ poly_color \in {None, "7fff0000"}
    /\ pc = "start"
    /\ i = 0
    /\ kml = <<>>
    /\ to_crs_calls = 0
    /\ console = <<>>
    /\ files = <<>>
    /\ Idle

params == <<crs_in, label_col, show_labels, label_scale, poly_fill, poly_color>>

\* lines 67-71: reproject if needed, then create the document.
Start ==
    /\ pc = "start"
    /\ IF NeedsReprojection(gdf)
       THEN gdf' = to_crs(gdf) /\ to_crs_calls' = to_crs_calls + 1
       ELSE UNCHANGED <<gdf, to_crs_calls>>
    /\ kml' = <<>>
    /\ i' = 1
    /\ pc' = "loop"
    /\ UNCHANGED <<params, console, files, aoi, read>>

\* lines 73-144: one iteration of the loop over gdf.iterrows().
ProcessRow ==
    /\ pc = "loop"
    /\ i <= Len(gdf.rows)
    /\ LET row == gdf.rows[i]
           geom == row.geometry
           label == label_of(row)
       IN  IF geom = NoneGeom
           THEN UNCHANGED <<kml, console>>
           ELSE IF geom.geom_type \in SupportedTypes
                THEN /\ kml' = emit(kml, geom, label)
                     /\ UNCHANGED console
                ELSE /\ console' = Append(console, Warning(geom.geom_type))
                     /\ UNCHANGED kml
    /\ i' = i + 1
    /\ UNCHANGED <<gdf, params, pc, to_crs_calls, files, aoi, read>>

\* The save taken one row early.
Save_before_last ==
    /\ pc = "loop"
    /\ i >= Len(gdf.rows)
    /\ files' = Append(files, [path |-> output_path, doc |-> kml])
    /\ pc' = "saved"
    /\ UNCHANGED <<gdf, params, i, kml, to_crs_calls, console, aoi, read>>

\* line 146: kml.save(output_path), once the rows are exhausted.
Save ==
    /\ pc = "loop"
    /\ i > Len(gdf.rows)
    /\ files' = Append(files, [path |-> output_path, doc |-> kml])
    /\ pc' = "saved"
    /\ UNCHANGED <<gdf, params, i, kml, to_crs_calls, console, aoi, read>>

\* line 147: the confirmation line.
Confirm ==
    /\ pc = "saved"
    /\ console' = Append(console, Saved(output_path))
    /\ pc' = "done"
    /\ UNCHANGED <<gdf, params, i, kml, to_crs_calls, files, aoi, read>>

Next == Start \/ ProcessRow \/ Save \/ Confirm

Spec == Init /\ [][Next]_vars

(***************************************************************************)
(* esri_to_gdf.  A path is the sequence of its pieces; "'.shp' in aoi" is  *)
(* the occurrence of the piece ".shp" anywhere in it.                      *)
(***************************************************************************)
PathPieces == {"roads", "/", ".shp", ".gdb", ".xml"}
Paths == SeqsUpTo(PathPieces, 1, MaxPathLen)

Contains(path, piece) == \E j \in 1..Len(path) : path[j] = piece
FirstIndex(path, piece) ==
    CHOOSE j \in 1..Len(path) :
        path[j] = piece /\ \A k \in 1..(j - 1) : path[k] # piece

\* aoi.split('.gdb')[0]
split_head(path, piece) ==
    IF Contains(path, piece)
    THEN SubSeq(path, 1, FirstIndex(path, piece) - 1)
    ELSE path

\* os.path.basename: what follows the last separator.
basename(path) ==
    IF Contains(path, "/")
    THEN LET last == CHOOSE j \in 1..Len(path) :
                         path[j] = "/" /\ \A k \in (j + 1)..Len(path) : path[k] # "/"
         IN  SubSeq(path, last + 1, Len(path))
    ELSE path

NotRecognized == <<"Format not recognized. Please provide a shp or featureclass (gdb)!">>

\* lines 16-26: the call esri_to_gdf makes, or the exception it raises.
esri_to_gdf(path) ==
    IF Contains(path, ".shp")
    THEN [call |-> "read_file(aoi)", filename |-> path, layer |-> <<>>,
          error |-> <<>>]
    ELSE IF Contains(path, ".gdb")
         THEN [call |-> "read_file(filename=gdb, layer=fc)",
               filename |-> split_head(path, ".gdb") \o <<".gdb">>,
               layer |-> basename(path), error |-> <<>>]
         ELSE [call |-> "raise", filename |-> <<>>, layer |-> <<>>,
               error |-> NotRecognized]

InitLoad ==
    /\ aoi \in Paths
    /\ read = [call |-> "none", filename |-> <<>>, layer |-> <<>>, error |-> <<>>]
    /\ pc = "call"
    /\ gdf = [crs |-> "unset", columns |-> {"name", "geometry"}, rows |-> <<>>]
    /\ crs_in = "unset"
    /\ label_col = None
    /\ show_labels = TRUE
    /\ label_scale = 1
    /\ poly_fill = 0
    /\ poly_color = None
    /\ i = 0
    /\ kml = <<>>
    /\ to_crs_calls = 0
    /\ console = <<>>
    /\ files = <<>>

Load ==
    /\ pc = "call"
    /\ read' = esri_to_gdf(aoi)
    /\ pc' = IF esri_to_gdf(aoi).call = "raise" THEN "raised" ELSE "returned"
    /\ UNCHANGED <<gdf, params, i, kml, to_crs_calls, console, files, aoi>>

NextLoad == Load

SpecLoad == InitLoad /\ [][NextLoad]_vars

(***************************************************************************)
(* What the properties below speak of.                                     *)
(***************************************************************************)
Rows == gdf.rows
Running == pc \in {"loop", "saved", "done"}
Handled(j) == Running /\ j < i

IsNull(row) == row.geometry = NoneGeom
IsSupported(row) == ~IsNull(row) /\ row.geometry.geom_type \in SupportedTypes
IsUnsupported(row) == ~IsNull(row) /\ row.geometry.geom_type \notin SupportedTypes
IsPolygonal(row) == ~IsNull(row) /\ row.geometry.geom_type \in PolygonTypes
Labelled(row) == show_labels /\ label_of(row) # ""

\* The number of features a record is to give, and the place of its first one.
NumOut(row) ==
    IF ~IsSupported(row) THEN 0
    ELSE IF IsPolygonal(row) /\ Labelled(row) THEN 2 ELSE 1
RECURSIVE OutBefore(_)
OutBefore(j) == IF j <= 1 THEN 0 ELSE OutBefore(j - 1) + NumOut(Rows[j - 1])
Slot(j) == OutBefore(j) + 1

\* The coordinates of a geometry: per part, its vertex sequences (for a polygon
\* the outer ring, then the inner rings).
PartCoords(g) ==
    IF g.geom_type = "Polygon" THEN <<g.exterior>> \o g.interiors ELSE <<g.coords>>
GeomCoords(g) ==
    IF g.geoms = <<>> THEN <<PartCoords(g)>>
    ELSE [j \in 1..Len(g.geoms) |-> PartCoords(g.geoms[j])]

\* The same of a feature of the document.
KmlPartCoords(p) ==
    IF p.tag = "Polygon" THEN <<p.outerboundaryis>> \o p.innerboundaryis
    ELSE <<p.coords>>
FeatureCoords(f) ==
    IF f.tag \in {"MultiGeometry", "Polygon"}
    THEN [j \in 1..Len(f.geoms) |-> KmlPartCoords(f.geoms[j])]
    ELSE <<<<f.coords>>>>

(***************************************************************************)
(* C1.  The feature of every record of a supported kind carries exactly    *)
(* the coordinates of the geometry: every part, ring and vertex, in order, *)
(* for any number of inner rings.                                          *)
(***************************************************************************)
C1_CoordinatesPreserved ==
    \A j \in 1..Len(Rows) :
        (Handled(j) /\ IsSupported(Rows[j]))
            => FeatureCoords(kml[Slot(j)]) = GeomCoords(Rows[j].geometry)

(***************************************************************************)
(* C2.  If show_labels is false or the label is empty, every feature of    *)
(* the record has label scale 0, whatever label_scale is; the feature of a *)
(* Polygon or MultiPolygon itself has label scale 0 unconditionally.       *)
(***************************************************************************)
C2_HiddenLabelScaleZero ==
    \A j \in 1..Len(Rows) :
        (Handled(j) /\ IsSupported(Rows[j])) =>
            /\ ~Labelled(Rows[j]) =>
                 \A k \in Slot(j)..(Slot(j + 1) - 1) :
                     k \in 1..Len(kml) /\ kml[k].style.labelscale = 0
            /\ IsPolygonal(Rows[j]) => kml[Slot(j)].style.labelscale = 0

C2_Witness ==
    /\ pc = "done"
    /\ label_scale = 2
    /\ \E j \in 1..Len(Rows) :
         /\ Rows[j].geometry.geom_type \in {"Point", "LineString", "MultiPoint"}
         /\ show_labels /\ label_col = "missing"
         /\ kml[Slot(j)].style.labelscale = 0

(***************************************************************************)
(* C3.  A Polygon or MultiPolygon record gets exactly one extra point      *)
(* right after its polygon feature iff show_labels is true and the label   *)
(* is non-empty: at the centroid of the geometry, named with the label,    *)
(* icon scale 0, the configured label scale and colour.  No other record   *)
(* gets one.                                                               *)
(***************************************************************************)
IsCentroidLabel(f, row) ==
    /\ f.tag = "Point"
    /\ f.name = label_of(row)
    /\ f.coords = <<<<centroid(row.geometry).x, centroid(row.geometry).y>>>>
    /\ f.style.iconscale = 0
    /\ f.style.labelscale = label_scale
    /\ f.style.labelcolor = label_color

\* The features a record added: those between its slot and the next record's.
Added(j) == SubSeq(kml, Slot(j), OutBefore(j + 1))

C3_CentroidLabel ==
    Running =>
        /\ Len(kml) = OutBefore(i)
        /\ \A j \in 1..Len(Rows) :
             Handled(j) =>
                /\ IsPolygonal(Rows[j]) /\ Labelled(Rows[j]) =>
                     /\ Len(Added(j)) = 2
                     /\ Added(j)[1].tag \in {"Polygon", "MultiGeometry"}
                     /\ "fill" \in DOMAIN Added(j)[1].style
                     /\ IsCentroidLabel(Added(j)[2], Rows[j])
                /\ IsPolygonal(Rows[j]) /\ ~Labelled(Rows[j]) =>
                     /\ Len(Added(j)) = 1
                     /\ "fill" \in DOMAIN Added(j)[1].style
                /\ IsSupported(Rows[j]) /\ ~IsPolygonal(Rows[j]) =>
                     /\ Len(Added(j)) = 1
                     /\ "fill" \notin DOMAIN Added(j)[1].style
                     /\ Added(j)[1].tag = "Point" =>
                            "iconcolor" \in DOMAIN Added(j)[1].style
                /\ ~IsSupported(Rows[j]) => Len(Added(j)) = 0

C3_Witness ==
    /\ pc = "done"
    /\ label_scale = 2
    /\ Len(Rows) = 2
    /\ Rows[1].geometry.geom_type = "Polygon"
    /\ Labelled(Rows[1])
    /\ IsSupported(Rows[2])
    /\ Len(kml) = 3
    /\ IsCentroidLabel(kml[2], Rows[1])

(***************************************************************************)
(* C4.  _style_polygon sets a fill colour iff poly_fill is truthy and      *)
(* poly_color is non-null; the fill flag is always the given poly_fill.    *)
(***************************************************************************)
C4_FillColor ==
    \A j \in 1..Len(Rows) :
        (Handled(j) /\ IsPolygonal(Rows[j])) =>
            LET style == kml[Slot(j)].style
            IN  /\ "polycolor" \in DOMAIN style <=> (poly_fill # 0 /\ poly_color # None)
                /\ "polycolor" \in DOMAIN style => style.polycolor = poly_color
                /\ style.fill = poly_fill

C4_Witness ==
    /\ pc = "done"
    /\ poly_fill = 1
    /\ poly_color = None
    /\ \E j \in 1..Len(Rows) :
         /\ Rows[j].geometry.geom_type = "MultiPolygon"
         /\ kml[Slot(j)].style.fill = 1
         /\ "polycolor" \notin DOMAIN kml[Slot(j)].style

(***************************************************************************)
(* C5.  Reprojection is invoked exactly when the EPSG code of the input    *)
(* CRS differs from 4326, for every CRS state (an unset CRS and a CRS      *)
(* without an EPSG code have no code, which is not 4326).                  *)
(***************************************************************************)
EpsgIs4326(crs) == crs # "unset" /\ to_epsg(crs).has /\ to_epsg(crs).code = 4326

\* C5 as stated: a call of to_crs exactly when the EPSG code is not 4326.
C5_Original ==
    Running => (to_crs_calls = 1 <=> ~EpsgIs4326(crs_in))

(***************************************************************************)
(* C5, amended.  Reprojection is invoked (once) exactly when the input CRS *)
(* is set and its EPSG code, if any, is not 4326; it is not invoked when   *)
(* the CRS is unset or is EPSG:4326.                                       *)
(***************************************************************************)
C5_Reprojection ==
    /\ to_crs_calls \in {0, 1}
    /\ Running => (to_crs_calls = 1 <=> (crs_in # "unset" /\ ~EpsgIs4326(crs_in)))
    /\ Running /\ to_crs_calls = 1 => gdf.crs = "EPSG:4326"
    /\ Running /\ to_crs_calls = 0 => gdf.crs = crs_in

C5_Witness ==
    /\ pc = "done"
    /\ crs_in = "custom"
    /\ to_crs_calls = 1
    /\ Len(kml) > 0
    /\ kml[1].tag = "LineString"
    /\ kml[1].coords = TransformSeq(<<<<0, 1>>, <<2, 3>>>>)

(***************************************************************************)
(* C6.  The document is the in-order concatenation, over the records in    *)
(* source order, of each record's output: nothing for a null or            *)
(* unsupported geometry, one feature for a supported one, plus the         *)
(* centroid label right after a labelled polygon.                          *)
(***************************************************************************)
RecordOutput(row) ==
    IF IsSupported(row)
    THEN <<build(row.geometry, label_of(row))>>
         \o centroid_label(row.geometry, label_of(row))
    ELSE <<>>
RECURSIVE OutputUpTo(_)
OutputUpTo(n) == IF n = 0 THEN <<>> ELSE OutputUpTo(n - 1) \o RecordOutput(Rows[n])

\* A feature with what tells its kind first, so that two features of different
\* kinds differ before their coordinates are compared.
Keyed(f) == <<f.tag, DOMAIN f.style, f>>
KeyedSeq(d) == [k \in 1..Len(d) |-> Keyed(d[k])]

C6_OutputOrder ==
    Running =>
        /\ Len(kml) = OutBefore(i)
        /\ KeyedSeq(kml) = KeyedSeq(OutputUpTo(i - 1))
        /\ \A j \in 1..(i - 1) : Len(RecordOutput(Rows[j])) = NumOut(Rows[j])
        /\ pc \in {"saved", "done"} => KeyedSeq(files[1].doc) = KeyedSeq(OutputUpTo(Len(Rows)))

C6_Witness ==
    /\ pc = "done"
    /\ Len(Rows) = 2
    /\ Rows[1].geometry.geom_type = "Polygon" /\ Labelled(Rows[1])
    /\ Rows[2].geometry.geom_type = "Point" /\ Labelled(Rows[2])
    /\ Len(files[1].doc) = 3
    /\ files[1].doc[1].tag = "Polygon"
    /\ files[1].doc[2].style.iconscale = 0
    /\ files[1].doc[3].style.iconscale = 1

(***************************************************************************)
(* C7.  A record with null geometry is skipped with no diagnostic and no   *)
(* feature; a record of an unsupported kind is skipped with no feature and *)
(* exactly one warning naming the kind; in both cases the loop goes on to  *)
(* the next record and the run reaches the save.                           *)
(***************************************************************************)
C7_SkipStep ==
    (pc = "loop" /\ i <= Len(Rows) /\ ~IsSupported(Rows[i])) =>
        /\ kml' = kml
        /\ i' = i + 1
        /\ pc' = "loop"
        /\ files' = files
        /\ IsNull(Rows[i]) => console' = console
        /\ IsUnsupported(Rows[i]) =>
              /\ Len(console') = Len(console) + 1
              /\ SubSeq(console', 1, Len(console)) = console
              /\ Contains(console'[Len(console')], Rows[i].geometry.geom_type)

\* C7: the loop never blocks, a finished run has handled every row and saved
\* once, and every step over a skipped record is as above.
C7_Skips ==
    /\ [](pc = "loop" => (ENABLED ProcessRow \/ ENABLED Save))
    /\ [](pc = "done" => (i = Len(Rows) + 1 /\ Len(files) = 1))
    /\ [][C7_SkipStep]_vars

C7_Witness ==
    /\ pc = "done"
    /\ Len(Rows) = 2
    /\ IsUnsupported(Rows[1])
    /\ IsSupported(Rows[2])
    /\ Len(console) = 2
    /\ Contains(console[1], "GeometryCollection")
    /\ console[2] = Saved(output_path)
    /\ Len(files[1].doc) >= 1

(***************************************************************************)
(* C9.  esri_to_gdf treats a path as a shapefile only when it ends in      *)
(* .shp; a path containing .gdb as a feature class whose container is      *)
(* everything up to and including .gdb and whose name is the remaining     *)
(* segment; every other path raises the format-not-recognized error and    *)
(* nothing is read.                                                        *)
(***************************************************************************)
EndsWith(path, piece) == Len(path) > 0 /\ path[Len(path)] = piece
\* container.gdb/name: one segment after the container.
GdbRest(path) == SubSeq(path, FirstIndex(path, ".gdb") + 1, Len(path))
IsFeatureClassPath(path) ==
    /\ Contains(path, ".gdb")
    /\ Len(GdbRest(path)) >= 2
    /\ Head(GdbRest(path)) = "/"
    /\ ~Contains(Tail(GdbRest(path)), "/")

C9_LoaderDispatch ==
    pc \in {"returned", "raised"} =>
        /\ read.call = "read_file(aoi)" => EndsWith(aoi, ".shp")
        /\ (~EndsWith(aoi, ".shp") /\ IsFeatureClassPath(aoi)) =>
              /\ read.call = "read_file(filename=gdb, layer=fc)"
              /\ read.filename = SubSeq(aoi, 1, FirstIndex(aoi, ".gdb"))
              /\ read.layer = Tail(GdbRest(aoi))
        /\ (~EndsWith(aoi, ".shp") /\ ~Contains(aoi, ".gdb")) =>
              /\ pc = "raised"
              /\ read.call = "raise"
              /\ read.error = NotRecognized

(***************************************************************************)
(* C10.  On a run that completes, the document is saved exactly once, only *)
(* after the last record was handled, and the only console output is the   *)
(* one confirmation line naming the output path, printed after the save.   *)
(***************************************************************************)
C10_SaveOrder ==
    /\ Len(files) <= 1
    /\ files # <<>> => (i = Len(Rows) + 1 /\ files[1].path = output_path)
    /\ pc = "done" => Len(files) = 1
    /\ Contains(console, Saved(output_path)) => files # <<>>

\* C10 as stated: the confirmation line is the only console output.
C10_Original ==
    /\ C10_SaveOrder
    /\ pc = "done" => console = <<Saved(output_path)>>

(***************************************************************************)
(* C10, amended.  On a run that completes, the document is saved exactly   *)
(* once, only after the last record was handled; the console output is one *)
(* warning per record of an unsupported kind, in record order, followed by *)
(* the one confirmation line naming the output path, printed after the     *)
(* save.  With no unsupported geometry the confirmation is the only line.  *)
(***************************************************************************)
RECURSIVE WarningsUpTo(_)
WarningsUpTo(n) ==
    IF n = 0 THEN <<>>
    ELSE WarningsUpTo(n - 1) \o
         (IF IsUnsupported(Rows[n]) THEN <<Warning(Rows[n].geometry.geom_type)>>
          ELSE <<>>)

C10_SaveOnceThenConfirm ==
    /\ C10_SaveOrder
    /\ pc = "done" => console = Append(WarningsUpTo(Len(Rows)), Saved(output_path))
    /\ pc = "saved" => console = WarningsUpTo(Len(Rows))

C10_Witness ==
    /\ pc = "done"
    /\ Len(Rows) = 2
    /\ IsNull(Rows[1])
    /\ IsUnsupported(Rows[2])
    /\ Len(files) = 1
    /\ Len(console) = 2
    /\ console[2] = Saved(output_path)
====
